---- MODULE Spec2Model ----
(***************************************************************************)
(* A model of hledgertools: the HledgerCommand argument builder and        *)
(* subprocess call (hlcommand.py) and the HLDataFrame transforms           *)
(* (hldataframe.py).                                                       *)
(*                                                                         *)
(* Python's None is the empty tuple <<>> and a present value v is the      *)
(* one-element tuple <<v>>, so that None, "" and [] stay distinguishable.  *)
(***************************************************************************)
EXTENDS Integers, Sequences, FiniteSets, TLC

VARIABLES
    hc,         \* the HledgerCommand instance: its attributes
    hc0,        \* the attributes as __init__ set them
    runs,       \* one frame per caller of run(): its locals and its outcome
    df,         \* the HLDataFrame the caller holds: the receiver of the calls
    df0,        \* that table as it was constructed
    op,         \* the call made on df, with its arguments
    ret         \* what the call returned or raised

cmdvars == <<hc, hc0, runs>>

tblvars == <<df, df0, op, ret>>

vars == <<hc, hc0, runs, df, df0, op, ret>>

-----------------------------------------------------------------------------
(* Bounds and input universes                                              *)

\* longest list given as other_options, extra_options, accounts or ignore
MaxArgs == 2

\* number of callers that may be inside run() on the same instance at once
MaxCallers == 2

None == <<>>

Some(v) == <<v>>

\* all sequences over S of length 0..n
RECURSIVE SeqsUpTo(_, _)
SeqsUpTo(S, n) ==
    IF n = 0 THEN {<<>>}
    ELSE LET shorter == SeqsUpTo(S, n - 1)
         IN  shorter \cup {Append(s, e) : s \in {t \in shorter : Len(t) = n - 1}, e \in S}

OptStr(S) == {None} \cup {Some(s) : s \in S}

OptList(S) == {None} \cup {Some(l) : l \in SeqsUpTo(S, MaxArgs)}

Subcommands == {"balance"}

GlobalOptions == {"-V", "--flat"}

ExtraOptions == {"--depth=1"}

AccountNames == {"assets", "expenses"}

IgnoreNames == {"equity"}

ExitCodes == {0, 1, 2}

Stdouts == {"", "account,total\nassets,1\n"}

Stderrs == {"", "hledger: error"}

-----------------------------------------------------------------------------
(* HledgerCommand                                                          *)

\* Python truthiness of an optional string or list: None, "" and [] are false
Truthy(o) == o # None /\ Len(o[1]) > 0

\* __init__: every argument is stored as given
HledgerCommand(ledgerfile, begin_date, end_date, period, periodic, output_format, other_options) ==
    [command |-> "hledger",
     ledgerfile |-> ledgerfile,
     begin_date |-> begin_date,
     end_date |-> end_date,
     period |-> period,
     periodic |-> periodic,
     output_format |-> output_format,
     other_options |-> other_options]

RunRequest(subcommand, accounts, ignore, extra_options) ==
    [subcommand |-> subcommand,
     accounts |-> accounts,
     ignore |-> ignore,
     extra_options |-> extra_options]

\* for x in xs: full_command.append(f(x))
RECURSIVE AppendEach(_, _, _)
AppendEach(full_command, xs, prefix) ==
    IF xs = <<>> THEN full_command
    ELSE AppendEach(Append(full_command, prefix \o Head(xs)), Tail(xs), prefix)

\* if o: for x in o: full_command.append(prefix + x)
AppendAll(full_command, o, prefix) ==
    IF Truthy(o) THEN AppendEach(full_command, o[1], prefix) ELSE full_command

\* if o: full_command.append(prefix + o)
AppendIf(full_command, o, prefix) ==
    IF Truthy(o) THEN Append(full_command, prefix \o o[1]) ELSE full_command

\* a bug: --begin is appended before --period
BuildCommandBeginFirst(self, req) ==
    LET c0 == <<"hledger", req.subcommand>>
        c1 == AppendIf(c0, self.ledgerfile, "--file=")
        c2 == AppendIf(c1, self.begin_date, "--begin=")
        c3 == AppendIf(c2, self.period, "--period=")
        c4 == AppendIf(c3, self.end_date, "--end=")
        c5 == AppendIf(c4, self.periodic, "--")
        c6 == AppendIf(c5, self.output_format, "--output-format=")
        c7 == AppendAll(c6, self.other_options, "")
        c8 == AppendAll(c7, req.extra_options, "")
        c9 == AppendAll(c8, req.accounts, "")
    IN  AppendAll(c9, req.ignore, "not:")

\* run(), lines 55-95: the list handed to subprocess.run
BuildCommand(self, req) ==
    LET c0 == <<"hledger", req.subcommand>>
        c1 == AppendIf(c0, self.ledgerfile, "--file=")
        c2 == AppendIf(c1, self.period, "--period=")
        c3 == AppendIf(c2, self.begin_date, "--begin=")
        c4 == AppendIf(c3, self.end_date, "--end=")
        c5 == AppendIf(c4, self.periodic, "--")
        c6 == AppendIf(c5, self.output_format, "--output-format=")
        c7 == AppendAll(c6, self.other_options, "")
        c8 == AppendAll(c7, req.extra_options, "")
        c9 == AppendAll(c8, req.accounts, "")
    IN  AppendAll(c9, req.ignore, "not:")

\* a bug: the per-call options are accumulated on the instance
SelfAfterBuildShared(self, req) ==
    IF Truthy(req.extra_options)
    THEN [self EXCEPT !.other_options =
              Some((IF self.other_options = None THEN <<>> ELSE self.other_options[1])
                   \o req.extra_options[1])]
    ELSE self

\* run(), lines 55-95: full_command is a fresh local list and every statement
\* appends to it; no attribute of self is assigned
SelfAfterBuild(self, req) == self

\* a bug: --output-format given as "" still wraps the output in a stream
RunReturnIsNotNone(self, stdout) ==
    IF self.output_format # None
    THEN [type |-> "StringIO", value |-> stdout]
    ELSE [type |-> "str", value |-> stdout]

\* run(), lines 106-109: the value returned after a successful process
RunReturn(self, stdout) ==
    IF Truthy(self.output_format)
    THEN [type |-> "StringIO", value |-> stdout]
    ELSE [type |-> "str", value |-> stdout]

\* the frame of a caller that is not inside run() and has not called it yet
IdleFrame ==
    [pc |-> "idle",
     req |-> RunRequest("", None, None, None),
     full_command |-> <<>>,
     spawns |-> 0,
     proc |-> None,
     ret |-> None,
     exc |-> None]

\* run(), lines 55-104 up to the spawn: the argument list is built and one
\* process is started with it
FrameAtSpawn(self, req) ==
    [pc |-> "running",
     req |-> req,
     full_command |-> BuildCommand(self, req),
     spawns |-> 1,
     proc |-> None,
     ret |-> None,
     exc |-> None]

\* a bug: a failed process is started once more before the error is raised
FrameAtExitRetry(self, frame, returncode, stdout, stderr) ==
    LET proc == [returncode |-> returncode, stdout |-> stdout, stderr |-> stderr]
    IN  IF returncode # 0 /\ frame.spawns < 2
        THEN [frame EXCEPT !.spawns = frame.spawns + 1]
        ELSE IF returncode # 0
        THEN [frame EXCEPT !.pc = "raised", !.proc = Some(proc),
                           !.exc = Some([type |-> "CalledProcessError",
                                         returncode |-> returncode,
                                         cmd |-> frame.full_command,
                                         output |-> stdout,
                                         stderr |-> stderr])]
        ELSE [frame EXCEPT !.pc = "returned", !.proc = Some(proc),
                           !.ret = Some(RunReturn(self, stdout))]

\* run(), lines 98-109: subprocess.run(..., check=True) raises
\* CalledProcessError on a non-zero exit status; otherwise run() returns
FrameAtExit(self, frame, returncode, stdout, stderr) ==
    LET proc == [returncode |-> returncode, stdout |-> stdout, stderr |-> stderr]
    IN  IF returncode # 0
        THEN [frame EXCEPT !.pc = "raised", !.proc = Some(proc),
                           !.exc = Some([type |-> "CalledProcessError",
                                         returncode |-> returncode,
                                         cmd |-> frame.full_command,
                                         output |-> stdout,
                                         stderr |-> stderr])]
        ELSE [frame EXCEPT !.pc = "returned", !.proc = Some(proc),
                           !.ret = Some(RunReturn(self, stdout))]

-----------------------------------------------------------------------------
(* Inputs of the command builder                                           *)

Callers == 1..MaxCallers

\* every combination of the six scalar options
ScalarConfigs ==
    {HledgerCommand(f, b, e, p, pc, o, None) :
        f \in OptStr({"", "ledger.journal"}),
        b \in OptStr({"2024-01-01"}),
        e \in OptStr({"2024-12-31"}),
        p \in OptStr({"2024"}),
        pc \in OptStr({"monthly"}),
        o \in OptStr({"", "csv"})}

\* every global option list, with and without the options around it
ListConfigs ==
    {HledgerCommand(f, None, None, None, None, o, oo) :
        f \in OptStr({"ledger.journal"}),
        o \in OptStr({"csv"}),
        oo \in OptList(GlobalOptions)}

Configs == ScalarConfigs \cup ListConfigs

\* every request
Requests ==
    {RunRequest(s, a, i, x) :
        s \in Subcommands,
        a \in OptList(AccountNames),
        i \in OptList(IgnoreNames),
        x \in OptList(ExtraOptions)}

\* three requests that share no per-call element
FewRequests ==
    {RunRequest("balance", Some(<<"assets">>), Some(<<"equity">>), None),
     RunRequest("balance", Some(<<"expenses", "assets">>), None, Some(<<"--depth=1">>)),
     RunRequest("balance", None, None, None)}

\* the requests tried on a configuration: all of them on the configurations
\* that vary the global option list, a few on those that vary the scalars
RequestsFor(self) == IF self \in ListConfigs THEN Requests ELSE FewRequests

-----------------------------------------------------------------------------
(* Actions of the command builder                                          *)

\* a caller enters run(): lines 55-104, up to the process being started
Run(c, req) ==
    /\ runs[c].pc = "idle"
    /\ runs' = [runs EXCEPT ![c] = FrameAtSpawn(hc, req)]
    /\ hc' = SelfAfterBuild(hc, req)
    /\ UNCHANGED <<hc0, tblvars>>

\* the process of caller c ends: lines 98-109
ProcessExit(c, returncode, stdout, stderr) ==
    /\ runs[c].pc = "running"
    /\ runs' = [runs EXCEPT ![c] = FrameAtExit(hc, runs[c], returncode, stdout, stderr)]
    /\ UNCHANGED <<hc, hc0, tblvars>>

\* the caller has the value run() returned, or the exception it raised, and
\* is free to call again
Leave(c) ==
    /\ runs[c].pc \in {"returned", "raised"}
    /\ runs' = [runs EXCEPT ![c] = IdleFrame]
    /\ UNCHANGED <<hc, hc0, tblvars>>

InitCmd ==
    /\ hc \in Configs
    /\ hc0 = hc
    /\ runs = [c \in Callers |-> IdleFrame]
    /\ df = <<>>
    /\ df0 = <<>>
    /\ op = [name |-> "none"]
    /\ ret = [ok |-> FALSE, df |-> <<>>, error |-> ""]

\* one caller, every configuration
NextCmd ==
    \/ \E req \in RequestsFor(hc) : Run(1, req)
    \/ \E rc \in ExitCodes, out \in Stdouts, err \in Stderrs : ProcessExit(1, rc, out, err)
    \/ Leave(1)

SpecCmd == InitCmd /\ [][NextCmd]_vars

\* three configurations that differ in what run() reads from the instance
FewConfigs ==
    {HledgerCommand(Some("ledger.journal"), None, None, None, None, None, None),
     HledgerCommand(Some("ledger.journal"), None, None, None, None, Some("csv"),
                    Some(<<"-V">>)),
     HledgerCommand(None, None, None, None, Some("monthly"), None, Some(<<>>))}

InitCalls ==
    /\ hc \in FewConfigs
    /\ hc0 = hc
    /\ runs = [c \in Callers |-> IdleFrame]
    /\ df = <<>>
    /\ df0 = <<>>
    /\ op = [name |-> "none"]
    /\ ret = [ok |-> FALSE, df |-> <<>>, error |-> ""]

\* several callers on one instance, their calls interleaved at the only point
\* where run() waits: the external process
NextCalls ==
    \/ \E c \in Callers, req \in FewRequests : Run(c, req)
    \/ \E c \in Callers, rc \in ExitCodes, out \in Stdouts, err \in Stderrs :
           ProcessExit(c, rc, out, err)
    \/ \E c \in Callers : Leave(c)

SpecCalls == InitCalls /\ [][NextCalls]_vars

-----------------------------------------------------------------------------
(* Claims about the command builder                                        *)

Range(s) == {s[i] : i \in DOMAIN s}

\* an option counts as configured when it was given and is not empty
Configured(o) == o # None /\ o[1] # ""

\* the one argument of a configured option, nothing otherwise
Flag(prefix, o) == IF Configured(o) THEN <<prefix \o o[1]>> ELSE <<>>

\* the arguments of a list given or not, each with the prefix
Listed(prefix, o) ==
    IF o = None THEN <<>> ELSE [i \in 1..Len(o[1]) |-> prefix \o o[1][i]]

\* the argument list of section 4.1
ExpectedArguments(self, req) ==
    <<"hledger", req.subcommand>>
        \o Flag("--file=", self.ledgerfile)
        \o Flag("--period=", self.period)
        \o Flag("--begin=", self.begin_date)
        \o Flag("--end=", self.end_date)
        \o Flag("--", self.periodic)
        \o Flag("--output-format=", self.output_format)
        \o Listed("", self.other_options)
        \o Listed("", req.extra_options)
        \o Listed("", req.accounts)
        \o Listed("not:", req.ignore)

ExampleConfig ==
    HledgerCommand(Some("ledger.journal"), None, None, None, None, None, None)

ExampleRequest ==
    RunRequest("balance", Some(<<"assets">>), Some(<<"equity">>), None)

\* C1: the argument list handed to the process is "hledger", the subcommand,
\* the configured flags --file, --period, --begin, --end, --<periodic>,
\* --output-format in that order, the global extra options, the per-call extra
\* options, the accounts and the not:-prefixed ignored accounts, each list in
\* its own order, and nothing else; the balance example gives the five
\* arguments of the specification.
C1_ArgumentListOrder ==
    \A c \in Callers :
        runs[c].pc # "idle" =>
            /\ runs[c].full_command = ExpectedArguments(hc, runs[c].req)
            /\ (hc = ExampleConfig /\ runs[c].req = ExampleRequest) =>
                   runs[c].full_command =
                       <<"hledger", "balance", "--file=ledger.journal", "assets",
                         "not:equity">>

C1_Witness ==
    \E c \in Callers :
        /\ runs[c].pc = "running"
        /\ Configured(hc.ledgerfile)
        /\ Configured(hc.output_format)
        /\ hc.other_options # None /\ Len(hc.other_options[1]) = 2
        /\ runs[c].req.extra_options # None /\ Len(runs[c].req.extra_options[1]) > 0
        /\ runs[c].req.accounts # None /\ Len(runs[c].req.accounts[1]) = 2
        /\ runs[c].req.ignore # None /\ Len(runs[c].req.ignore[1]) > 0

\* C2: a process that exits with a non-zero status makes run() raise: nothing
\* is returned, the exception carries the exit code and the captured standard
\* error, and the process was started once.
C2_NonZeroExitRaises ==
    \A c \in Callers :
        runs[c].proc # None =>
            /\ (runs[c].proc[1].returncode # 0) <=> (runs[c].pc = "raised")
            /\ (runs[c].proc[1].returncode = 0) <=> (runs[c].pc = "returned")
            /\ runs[c].pc = "raised" =>
                   /\ runs[c].ret = None
                   /\ runs[c].exc # None
                   /\ runs[c].exc[1].returncode = runs[c].proc[1].returncode
                   /\ runs[c].exc[1].stderr = runs[c].proc[1].stderr
                   /\ runs[c].spawns = 1

C2_Witness ==
    \E c \in Callers :
        /\ runs[c].pc = "raised"
        /\ runs[c].exc[1].returncode = 2
        /\ runs[c].exc[1].stderr = "hledger: error"
        /\ runs[c].proc[1].stdout # ""

OutputFormatArguments == {"--output-format=" \o f : f \in {"", "csv"}}

\* C3: a successful run() returns a text stream over the captured standard
\* output exactly when an output format is configured, which is exactly when
\* --output-format=<format> is in the argument list; otherwise it returns the
\* text; in both cases the content is the process's standard output.
C3_StreamIffOutputFormat ==
    \A c \in Callers :
        runs[c].pc = "returned" =>
            /\ runs[c].ret # None /\ runs[c].exc = None
            /\ runs[c].ret[1].type \in {"StringIO", "str"}
            /\ (runs[c].ret[1].type = "StringIO") <=> Configured(hc.output_format)
            /\ (runs[c].ret[1].type = "StringIO") <=>
                   (Range(runs[c].full_command) \cap OutputFormatArguments # {})
            /\ runs[c].ret[1].value = runs[c].proc[1].stdout

C3_Witness ==
    \E c \in Callers :
        /\ runs[c].pc = "returned"
        /\ runs[c].ret[1].type = "StringIO"
        /\ runs[c].ret[1].value # ""
        /\ runs[c].proc[1].stderr # ""

\* the arguments that come from the request alone
PerCallArguments(req) ==
    Range(Listed("", req.extra_options)) \cup Range(Listed("", req.accounts))
        \cup Range(Listed("not:", req.ignore))

\* C4: whatever the interleaving of the calls on one instance, each call
\* starts one process, its argument list is the one built from the options as
\* configured and its own request, no per-call argument of another call is in
\* it, and the configured options are as __init__ set them.
C4_CallsAreIndependent ==
    /\ hc = hc0
    /\ \A c \in Callers :
           runs[c].pc # "idle" =>
               /\ runs[c].spawns = 1
               /\ runs[c].full_command = ExpectedArguments(hc0, runs[c].req)
               /\ \A d \in Callers \ {c} :
                      runs[d].pc # "idle" =>
                          (PerCallArguments(runs[d].req)
                               \ PerCallArguments(runs[c].req))
                              \cap Range(runs[c].full_command) = {}

C4_Witness ==
    /\ runs[1].pc = "running"
    /\ runs[2].pc = "raised"
    /\ runs[1].req.extra_options # None
    /\ runs[2].req.ignore # None
    /\ hc.other_options # None

-----------------------------------------------------------------------------
(* Strings, regular expressions and numbers as the dataframe library      *)
(* treats them                                                             *)

\* the characters of the strings that are matched, stripped or parsed
Chars(s) ==
    CASE s = "assets:bank" -> <<"a", "s", "s", "e", "t", "s", ":", "b", "a", "n", "k">>
      [] s = "expenses:food" -> <<"e", "x", "p", "e", "n", "s", "e", "s", ":", "f", "o", "o", "d">>
      [] s = "account" -> <<"a", "c", "c", "o", "u", "n", "t">>
      [] s = "2024-01" -> <<"2", "0", "2", "4", "-", "0", "1">>
      [] s = "2024-02" -> <<"2", "0", "2", "4", "-", "0", "2">>
      [] s = "Jan" -> <<"J", "a", "n">>
      [] s = "£100.50" -> <<"£", "1", "0", "0", ".", "5", "0">>
      [] s = "£100" -> <<"£", "1", "0", "0">>
      [] s = "£20" -> <<"£", "2", "0">>
      [] s = "£1£0" -> <<"£", "1", "£", "0">>
      [] s = "$7" -> <<"$", "7">>
      [] s = "n/a" -> <<"n", "/", "a">>
      [] s = "£150" -> <<"£", "1", "5", "0">>
      [] s = "assets" -> <<"a", "s", "s", "e", "t", "s">>
      [] s = "expenses" -> <<"e", "x", "p", "e", "n", "s", "e", "s">>
      [] s = "^a" -> <<"^", "a">>
      [] s = "food$" -> <<"f", "o", "o", "d", "$">>
      [] s = "e.*:f" -> <<"e", ".", "*", ":", "f">>
      [] s = "." -> <<".">>
      [] s = "income" -> <<"i", "n", "c", "o", "m", "e">>
      [] s = "bank|food" -> <<"b", "a", "n", "k", "|", "f", "o", "o", "d">>
      [] s = "" -> <<>>
      [] s = "£" -> <<"£">>
      [] s = "$" -> <<"$">>

Digits == {"0", "1", "2", "3", "4", "5", "6", "7", "8", "9"}

DigitValue(c) ==
    CASE c = "0" -> 0 [] c = "1" -> 1 [] c = "2" -> 2 [] c = "3" -> 3 [] c = "4" -> 4
      [] c = "5" -> 5 [] c = "6" -> 6 [] c = "7" -> 7 [] c = "8" -> 8 [] c = "9" -> 9

\* "|".join(patterns), on characters
RECURSIVE Join(_)
Join(patterns) ==
    IF patterns = <<>> THEN <<>>
    ELSE IF Len(patterns) = 1 THEN Chars(patterns[1])
    ELSE Chars(patterns[1]) \o <<"|">> \o Join(Tail(patterns))

\* the alternatives of a regular expression without groups
RECURSIVE Branches(_)
Branches(re) ==
    IF \E i \in DOMAIN re : re[i] = "|"
    THEN LET i == CHOOSE k \in DOMAIN re : re[k] = "|" /\ \A j \in 1..(k - 1) : re[j] # "|"
         IN  <<SubSeq(re, 1, i - 1)>> \o Branches(SubSeq(re, i + 1, Len(re)))
    ELSE <<re>>

\* the number of characters from pos on that the atom c matches
RECURSIVE RunLength(_, _, _)
RunLength(c, text, pos) ==
    IF pos <= Len(text) /\ (c = "." \/ c = text[pos])
    THEN 1 + RunLength(c, text, pos + 1)
    ELSE 0

\* A match of re that starts at pos: the position after it, or 0 when there is
\* none. Atoms are a literal character and "."; an atom may carry "*", which is
\* greedy; "$" at the end of re matches at the end of the text only.
RECURSIVE MatchHere(_, _, _)
RECURSIVE MatchStar(_, _, _, _, _)
MatchHere(re, text, pos) ==
    IF re = <<>> THEN pos
    ELSE IF Len(re) >= 2 /\ re[2] = "*"
    THEN MatchStar(re[1], SubSeq(re, 3, Len(re)), text, pos, RunLength(re[1], text, pos))
    ELSE IF re = <<"$">>
    THEN (IF pos = Len(text) + 1 THEN pos ELSE 0)
    ELSE IF pos <= Len(text) /\ (re[1] = "." \/ re[1] = text[pos])
    THEN MatchHere(Tail(re), text, pos + 1)
    ELSE 0

MatchStar(c, rest, text, pos, k) ==
    LET end == MatchHere(rest, text, pos + k)
    IN  IF end # 0 THEN end
        ELSE IF k = 0 THEN 0
        ELSE MatchStar(c, rest, text, pos, k - 1)

\* a match of one alternative at pos; "^" at its start matches at the start of
\* the text only
BranchMatch(branch, text, pos) ==
    IF branch # <<>> /\ branch[1] = "^"
    THEN (IF pos = 1 THEN MatchHere(Tail(branch), text, 1) ELSE 0)
    ELSE MatchHere(branch, text, pos)

\* the first alternative that matches at pos decides the match
RECURSIVE FirstBranchMatch(_, _, _)
FirstBranchMatch(branches, text, pos) ==
    IF branches = <<>> THEN 0
    ELSE LET end == BranchMatch(Head(branches), text, pos)
         IN  IF end # 0 THEN end ELSE FirstBranchMatch(Tail(branches), text, pos)

\* the leftmost match of re in text as <<start, end>>, or <<0, 0>>
RECURSIVE FindFrom(_, _, _)
FindFrom(re, text, pos) ==
    IF pos > Len(text) + 1 THEN <<0, 0>>
    ELSE LET end == FirstBranchMatch(Branches(re), text, pos)
         IN  IF end # 0 THEN <<pos, end>> ELSE FindFrom(re, text, pos + 1)

\* str.contains(pattern): the pattern is a regular expression and may match
\* anywhere in the value
StrContains(text, re) == FindFrom(re, text, 1) # <<0, 0>>

\* str.replace(pattern, ""): the pattern is a regular expression and only its
\* leftmost match is removed
StrReplace(text, re) ==
    LET m == FindFrom(re, text, 1)
    IN  IF m = <<0, 0>> THEN text
        ELSE SubSeq(text, 1, m[1] - 1) \o SubSeq(text, m[2], Len(text))

RECURSIVE Pow10(_)
Pow10(n) == IF n = 0 THEN 1 ELSE 10 * Pow10(n - 1)

RECURSIVE DigitsValue(_)
DigitsValue(ds) ==
    IF ds = <<>> THEN 0 ELSE 10 * DigitsValue(SubSeq(ds, 1, Len(ds) - 1)) + DigitValue(ds[Len(ds)])

RECURSIVE StripTrailingZeros(_)
StripTrailingZeros(ds) ==
    IF ds # <<>> /\ ds[Len(ds)] = "0" THEN StripTrailingZeros(SubSeq(ds, 1, Len(ds) - 1))
    ELSE ds

\* the text of a decimal number: an optional sign, digits, at most one point,
\* at least one digit
IsNumber(text) ==
    LET body == IF text # <<>> /\ text[1] \in {"-", "+"} THEN Tail(text) ELSE text
        points == {i \in DOMAIN body : body[i] = "."}
    IN  /\ Cardinality(points) <= 1
        /\ \A i \in DOMAIN body : body[i] \in Digits \cup {"."}
        /\ \E i \in DOMAIN body : body[i] \in Digits

\* the number a text stands for, as <<sign, mantissa, scale>>: the value is
\* sign * mantissa / 10^scale, with no trailing zero after the point
ParseNumber(text) ==
    LET neg == text[1] = "-"
        body == IF text[1] \in {"-", "+"} THEN Tail(text) ELSE text
        points == {i \in DOMAIN body : body[i] = "."}
        p == IF points = {} THEN Len(body) + 1 ELSE CHOOSE i \in points : TRUE
        whole == SubSeq(body, 1, p - 1)
        frac == StripTrailingZeros(SubSeq(body, p + 1, Len(body)))
        mantissa == DigitsValue(whole \o frac)
    IN  <<IF neg /\ mantissa # 0 THEN -1 ELSE 1, mantissa, Len(frac)>>

\* a year and a month written as %Y-%m
IsYearMonth(text) ==
    /\ Len(text) = 7
    /\ \A i \in {1, 2, 3, 4, 6, 7} : text[i] \in Digits
    /\ text[5] = "-"
    /\ DigitsValue(SubSeq(text, 6, 7)) \in 1..12

ParseYearMonth(text) ==
    <<DigitsValue(SubSeq(text, 1, 4)), DigitsValue(SubSeq(text, 6, 7)), 1>>

-----------------------------------------------------------------------------
(* Tables                                                                  *)
(*                                                                         *)
(* A table is a sequence of columns [name, dtype, values]; a value is a    *)
(* record [kind, s, n]: a string (kind "str", text s), a float (kind       *)
(* "f64", n = <<sign, mantissa, scale>>), a datetime (kind "datetime",     *)
(* n = <<year, month, day>>) or a null (kind "null").                      *)

Str(s) == [kind |-> "str", s |-> s, n |-> <<0, 0, 0>>]

F64(n) == [kind |-> "f64", s |-> "", n |-> n]

Datetime(n) == [kind |-> "datetime", s |-> "", n |-> n]

Null == [kind |-> "null", s |-> "", n |-> <<0, 0, 0>>]

Column(name, dtype, values) == [name |-> name, dtype |-> dtype, values |-> values]

Columns(t) == [i \in DOMAIN t |-> t[i].name]

Width(t) == Len(t)

Height(t) == IF t = <<>> THEN 0 ELSE Len(t[1].values)

HasColumn(t, name) == \E i \in DOMAIN t : t[i].name = name

ColumnIndex(t, name) == CHOOSE i \in DOMAIN t : t[i].name = name

\* the outcome of a call: a new table, or the error raised
Returned(t) == [ok |-> TRUE, df |-> t, error |-> ""]

Raised(e) == [ok |-> FALSE, df |-> <<>>, error |-> e]

\* the rows of t at the indices idx, in that order
SelectRows(t, idx) ==
    [i \in DOMAIN t |->
        Column(t[i].name, t[i].dtype, [k \in DOMAIN idx |-> t[i].values[idx[k]]])]

\* the increasing sequence of the members of a set of row indices
RECURSIVE Ascending(_)
Ascending(S) ==
    IF S = {} THEN <<>>
    ELSE LET m == CHOOSE x \in S : \A y \in S : x <= y
         IN  <<m>> \o Ascending(S \ {m})

\* isinstance(patterns, str): a single pattern is a list of one
PatternList(patterns) ==
    IF patterns.type = "str" THEN <<patterns.items[1]>> ELSE patterns.items

\* pl.col(account_col).str.contains(pattern), negated when exclude is set: a
\* null value gives a null condition, and so does its negation
Condition(value, pattern, exclude) ==
    IF value.kind = "null" THEN "null"
    ELSE IF StrContains(Chars(value.s), pattern) # exclude THEN "true"
    ELSE "false"

\* filter_accounts, lines 92-101: filter() keeps the rows whose condition is
\* true, in their order
FilterAccounts(self, patterns, account_col, exclude) ==
    LET pattern == Join(PatternList(patterns))
    IN  IF ~HasColumn(self, account_col) THEN Raised("ColumnNotFoundError")
        ELSE LET col == self[ColumnIndex(self, account_col)]
             IN  IF col.dtype # "str" THEN Raised("SchemaError")
                 ELSE Returned(SelectRows(self, Ascending(
                          {r \in DOMAIN col.values :
                              Condition(col.values[r], pattern, exclude) = "true"})))

\* col_to_datetime, lines 127-129: the column is parsed with the format, a
\* value that does not conform raises, a null stays a null
ColToDatetime(self, datecol_name, date_format) ==
    IF ~HasColumn(self, datecol_name) THEN Raised("ColumnNotFoundError")
    ELSE LET i == ColumnIndex(self, datecol_name)
             col == self[i]
             Conforms(v) == date_format = "%Y-%m" /\ IsYearMonth(Chars(v.s))
         IN  IF col.dtype # "str" THEN Raised("SchemaError")
             ELSE IF \E r \in DOMAIN col.values :
                         col.values[r].kind # "null" /\ ~Conforms(col.values[r])
             THEN Raised("InvalidOperationError")
             ELSE Returned([self EXCEPT ![i] = Column(col.name, "datetime",
                      [r \in DOMAIN col.values |->
                          IF col.values[r].kind = "null" THEN Null
                          ELSE Datetime(ParseYearMonth(Chars(col.values[r].s)))])])

\* the text of a float, as a cast to string writes it
FormatNumber(n) ==
    LET whole == n[2] \div Pow10(n[3])
        frac == n[2] % Pow10(n[3])
        RECURSIVE Pad(_, _)
        Pad(k, v) == IF k = 0 THEN "" ELSE Pad(k - 1, v \div 10) \o ToString(v % 10)
    IN  (IF n[1] < 0 THEN "-" ELSE "") \o ToString(whole) \o "."
            \o (IF n[3] = 0 THEN "0" ELSE Pad(n[3], frac))

\* the common type of the columns of a transpose: one type stays, a mix of
\* types becomes strings
Supertype(t) ==
    IF \A i \in DOMAIN t : t[i].dtype = t[1].dtype THEN t[1].dtype ELSE "str"

CastTo(value, dtype) ==
    IF value.kind = "null" \/ value.kind = dtype THEN value
    ELSE IF value.kind = "f64" THEN Str(FormatNumber(value.n))
    ELSE Str(ToString(value.n[1]) \o "-" \o ToString(value.n[2]) \o "-" \o ToString(value.n[3]))

\* pl.DataFrame.transpose(include_header=...): one column per row, named
\* column_0, column_1, ...; with include_header a first column named "column"
\* holds the names of the original columns; an empty table raises
PlTranspose(t, include_header) ==
    IF Height(t) = 0 \/ Width(t) = 0 THEN Raised("NoDataError")
    ELSE LET dtype == Supertype(t)
             header == Column("column", "str", [j \in DOMAIN t |-> Str(t[j].name)])
             data == [r \in 1..Height(t) |->
                         Column("column_" \o ToString(r - 1), dtype,
                                [j \in DOMAIN t |-> CastTo(t[j].values[r], dtype)])]
         IN  Returned(IF include_header THEN <<header>> \o data ELSE data)

\* rename({"Account": "account"}): a new table; a name held twice raises
Rename(t, old, new) ==
    IF HasColumn(t, new) THEN Raised("DuplicateError")
    ELSE Returned([i \in DOMAIN t |->
             IF t[i].name = old THEN Column(new, t[i].dtype, t[i].values) ELSE t[i]])

\* drop(id_col): a new table without the column
Drop(t, name) ==
    LET i == ColumnIndex(t, name)
    IN  SubSeq(t, 1, i - 1) \o SubSeq(t, i + 1, Len(t))

\* df.columns = names: every name must be a string, there must be one name per
\* column and no name twice
SetColumns(t, names) ==
    IF \E k \in DOMAIN names : names[k].kind # "str" THEN Raised("TypeError")
    ELSE IF Len(names) # Width(t) THEN Raised("ShapeError")
    ELSE IF \E j, k \in DOMAIN names : j # k /\ names[j] = names[k]
    THEN Raised("DuplicateError")
    ELSE Returned([i \in DOMAIN t |-> Column(names[i].s, t[i].dtype, t[i].values)])

\* a bug: the first column of the result is always labelled "date"
NewIdColAlwaysDate(id_col) == "date"

\* transpose, line 206: the label of the first column of the result
NewIdCol(id_col) == IF id_col = "account" THEN "date" ELSE "account"

\* a bug: the new headers are assigned to df, which is the receiver itself
\* when no column had to be renamed
ColumnsTargetDf(df_name) == df_name

\* transpose, line 210: the object whose columns are assigned is the new
\* table df_transposed
ColumnsTarget(df_name) == "df_transposed"

\* transpose, lines 185-212. The objects the method handles are named: "self"
\* is the receiver, "renamed" the table rename() returns, "df_transposed" the
\* table transpose() returns; df is "renamed" when a column Account was
\* renamed and the receiver itself otherwise.
Transpose(self, id_col, include_header, auto_name) ==
    IF ~auto_name THEN [self |-> self, ret |-> PlTranspose(self, include_header)]
    ELSE
    LET detected ==
            IF id_col # None THEN id_col
            ELSE IF HasColumn(self, "account") \/ HasColumn(self, "Account")
            THEN Some("account")
            ELSE IF HasColumn(self, "date") THEN Some("date")
            ELSE None
        renamed == IF HasColumn(self, "Account") THEN Rename(self, "Account", "account")
                   ELSE Returned(self)
        df_name == IF HasColumn(self, "Account") THEN "renamed" ELSE "self"
    IN  IF detected = None
        THEN [self |-> self, ret |-> PlTranspose(self, include_header)]
        ELSE IF ~renamed.ok THEN [self |-> self, ret |-> renamed]
        ELSE IF ~HasColumn(renamed.df, detected[1])
        THEN [self |-> self, ret |-> Raised("ColumnNotFoundError")]
        ELSE
        LET id_values == renamed.df[ColumnIndex(renamed.df, detected[1])].values
            new_id_col == NewIdCol(detected[1])
            transposed == PlTranspose(Drop(renamed.df, detected[1]), include_header)
        IN  IF ~transposed.ok THEN [self |-> self, ret |-> transposed]
            ELSE
            LET heap == [self |-> self, renamed |-> renamed.df,
                         df_transposed |-> transposed.df]
                target == ColumnsTarget(df_name)
                assigned == SetColumns(heap[target], <<Str(new_id_col)>> \o id_values)
            IN  IF ~assigned.ok THEN [self |-> self, ret |-> assigned]
                ELSE LET after == [heap EXCEPT ![target] = assigned.df]
                     IN  [self |-> after.self, ret |-> Returned(after.df_transposed)]

\* a bug: a column named in change is converted even when preserve names it
ColumnsToConvertIgnoringPreserve(self, preserve_cols, change_cols) ==
    IF change_cols = None THEN {self[i].name : i \in DOMAIN self} ELSE change_cols[1]

\* currency_to_number, lines 245-256: the columns of change (all columns when
\* it is None) that are not in preserve
ColumnsToConvert(self, preserve_cols, change_cols) ==
    LET change == IF change_cols = None THEN {self[i].name : i \in DOMAIN self}
                  ELSE change_cols[1]
        preserve == IF preserve_cols = None THEN {} ELSE preserve_cols[1]
    IN  change \ preserve

\* pl.col(col).str.replace(currency_symbol, ""), on the characters of a value
Stripped(value, currency_symbol) == StrReplace(Chars(value.s), Chars(currency_symbol))

\* currency_to_number, lines 250-258: each column to convert has the first
\* match of the symbol removed from every value and is cast to Float64; the
\* cast raises on a text that is no number, and a null stays a null
CurrencyToNumber(self, currency_symbol, preserve_cols, change_cols) ==
    LET cols == ColumnsToConvert(self, preserve_cols, change_cols)
        Converts(i) == self[i].name \in cols
    IN  IF \E c \in cols : ~HasColumn(self, c) THEN Raised("ColumnNotFoundError")
        ELSE IF \E i \in DOMAIN self : Converts(i) /\ self[i].dtype # "str"
        THEN Raised("SchemaError")
        ELSE IF \E i \in DOMAIN self : Converts(i) /\
                    \E r \in DOMAIN self[i].values :
                        /\ self[i].values[r].kind # "null"
                        /\ ~IsNumber(Stripped(self[i].values[r], currency_symbol))
        THEN Raised("InvalidOperationError")
        ELSE Returned([i \in DOMAIN self |->
                 IF Converts(i)
                 THEN Column(self[i].name, "f64",
                          [r \in DOMAIN self[i].values |->
                              IF self[i].values[r].kind = "null" THEN Null
                              ELSE F64(ParseNumber(
                                       Stripped(self[i].values[r], currency_symbol)))])
                 ELSE self[i]])

-----------------------------------------------------------------------------
(* Inputs of the table operations                                          *)

\* most rows of a table
MaxRows == 2

\* the rows tables are made of: an account, a date and two amounts
LedgerRows ==
    {[acct |-> Str("assets:bank"), date |-> Str("2024-01"),
      a |-> Str("£100.50"), b |-> Str("£20")],
     [acct |-> Str("expenses:food"), date |-> Str("2024-02"),
      a |-> Str("£100"), b |-> Str("£150")],
     [acct |-> Null, date |-> Str("2024-02"),
      a |-> Str("£1£0"), b |-> Null],
     [acct |-> Str("account"), date |-> Str("Jan"),
      a |-> Str("n/a"), b |-> Str("$7")]}

H(name, field, dtype) == [name |-> name, field |-> field, dtype |-> dtype]

\* the layouts of the tables: which columns, in which order, of which type
Layouts ==
    {<<H("account", "acct", "str"), H("2024-01", "a", "str"), H("2024-02", "b", "str")>>,
     <<H("Account", "acct", "str"), H("2024-01", "a", "str")>>,
     <<H("date", "date", "str"), H("account", "acct", "str"), H("amount", "a", "str")>>,
     <<H("date", "date", "str"), H("amount", "a", "str")>>,
     <<H("txnidx", "b", "str"), H("amount", "a", "str")>>,
     <<H("account", "acct", "str")>>,
     <<H("account", "acct", "str"), H("amount", "a", "f64")>>,
     <<H("date", "date", "str"), H("account", "acct", "str"), H("amount", "a", "f64")>>,
     <<H("Account", "acct", "str"), H("account", "acct", "str"), H("amount", "a", "str")>>}

\* a float column holds the numbers its texts stand for, and nulls
AsFloat(v) ==
    IF v.kind = "str" /\ IsNumber(StrReplace(Chars(v.s), <<"£">>))
    THEN F64(ParseNumber(StrReplace(Chars(v.s), <<"£">>)))
    ELSE Null

MakeTable(layout, rows) ==
    [i \in DOMAIN layout |->
        Column(layout[i].name, layout[i].dtype,
               [r \in DOMAIN rows |->
                   IF layout[i].dtype = "f64" THEN AsFloat(rows[r][layout[i].field])
                   ELSE rows[r][layout[i].field]])]

Tables == {MakeTable(l, rows) : l \in Layouts, rows \in SeqsUpTo(LedgerRows, MaxRows)}

PatternArgs ==
    {[type |-> "str", items |-> <<"assets">>],
     [type |-> "str", items |-> <<"e.*:f">>],
     [type |-> "list", items |-> <<>>],
     [type |-> "list", items |-> <<"assets", "expenses">>],
     [type |-> "list", items |-> <<"^a">>],
     [type |-> "list", items |-> <<"food$", "income">>],
     [type |-> "list", items |-> <<"bank|food">>],
     [type |-> "list", items |-> <<"income">>]}

AccountColArgs == {"account", "Account"}

DateColArgs == {"date", "account"}

DateFormatArgs == {"%Y-%m", "%Y-%m-%d"}

IdColArgs == OptStr({"account", "Account", "date", "amount"})

CurrencySymbolArgs == {"£", "$"}

PreserveArgs ==
    {None, Some({}), Some({"date"}), Some({"account", "date"}), Some({"amount"})}

ChangeArgs ==
    {None, Some({"amount"}), Some({"amount", "date"}), Some({"2024-01", "2024-02"}),
     Some({"total"})}

-----------------------------------------------------------------------------
(* Actions of the table operations                                         *)

NoCall == [name |-> "none"]

NoResult == [ok |-> FALSE, df |-> <<>>, error |-> ""]

\* df.filter_accounts(patterns, account_col, exclude)
CallFilterAccounts(patterns, account_col, exclude) ==
    /\ op = NoCall
    /\ op' = [name |-> "filter_accounts", patterns |-> patterns,
              account_col |-> account_col, exclude |-> exclude]
    /\ ret' = FilterAccounts(df, patterns, account_col, exclude)
    /\ UNCHANGED <<df, df0, cmdvars>>

\* df.col_to_datetime(datecol_name, date_format)
CallColToDatetime(datecol_name, date_format) ==
    /\ op = NoCall
    /\ op' = [name |-> "col_to_datetime", datecol_name |-> datecol_name,
              date_format |-> date_format]
    /\ ret' = ColToDatetime(df, datecol_name, date_format)
    /\ UNCHANGED <<df, df0, cmdvars>>

\* df.transpose(id_col, include_header, auto_name)
CallTranspose(id_col, include_header, auto_name) ==
    /\ op = NoCall
    /\ op' = [name |-> "transpose", id_col |-> id_col,
              include_header |-> include_header, auto_name |-> auto_name]
    /\ df' = Transpose(df, id_col, include_header, auto_name).self
    /\ ret' = Transpose(df, id_col, include_header, auto_name).ret
    /\ UNCHANGED <<df0, cmdvars>>

\* df.currency_to_number(currency_symbol, preserve_cols, change_cols)
CallCurrencyToNumber(currency_symbol, preserve_cols, change_cols) ==
    /\ op = NoCall
    /\ op' = [name |-> "currency_to_number", currency_symbol |-> currency_symbol,
              preserve_cols |-> preserve_cols, change_cols |-> change_cols]
    /\ ret' = CurrencyToNumber(df, currency_symbol, preserve_cols, change_cols)
    /\ UNCHANGED <<df, df0, cmdvars>>

\* the caller has the result and may call the same receiver again
Discard ==
    /\ op # NoCall
    /\ op' = NoCall
    /\ ret' = NoResult
    /\ UNCHANGED <<df, df0, cmdvars>>

InitTable ==
    /\ df \in Tables
    /\ df0 = df
    /\ op = NoCall
    /\ ret = NoResult
    /\ hc = HledgerCommand(None, None, None, None, None, None, None)
    /\ hc0 = hc
    /\ runs = [c \in Callers |-> IdleFrame]

NextTable ==
    \/ \E p \in PatternArgs, c \in AccountColArgs, x \in BOOLEAN :
           CallFilterAccounts(p, c, x)
    \/ \E c \in DateColArgs, f \in DateFormatArgs : CallColToDatetime(c, f)
    \/ \E i \in IdColArgs, h \in BOOLEAN, a \in BOOLEAN : CallTranspose(i, h, a)
    \/ \E s \in CurrencySymbolArgs, p \in PreserveArgs, c \in ChangeArgs :
           CallCurrencyToNumber(s, p, c)
    \/ Discard

SpecTable == InitTable /\ [][NextTable]_vars

-----------------------------------------------------------------------------
(* Claims about the table operations                                       *)

Complement(S, n) == (1..n) \ S

\* C5: for a table with the account column, the rows filter_accounts keeps
\* and the rows it keeps with exclude=True are a partition of the rows of the
\* table, each result in the original row order.
C5_FilterPartitionsRows ==
    (/\ op.name = "filter_accounts"
     /\ HasColumn(df, op.account_col)
     /\ df[ColumnIndex(df, op.account_col)].dtype = "str") =>
        LET other == FilterAccounts(df, op.patterns, op.account_col, ~op.exclude)
        IN  /\ ret.ok
            /\ other.ok
            /\ \E kept \in SUBSET (1..Height(df)) :
                   /\ ret.df = SelectRows(df, Ascending(kept))
                   /\ other.df = SelectRows(df, Ascending(Complement(kept, Height(df))))

\* the columns the specification says are converted
ChangeMinusPreserve(t, call) ==
    (IF call.change_cols = None THEN Range(Columns(t)) ELSE call.change_cols[1])
        \ (IF call.preserve_cols = None THEN {} ELSE call.preserve_cols[1])

ExampleTable ==
    <<Column("date", "str", <<Str("2024-01")>>),
      Column("amount", "str", <<Str("£100.50")>>)>>

\* C6: currency_to_number converts the columns of change (all columns when
\* change is not given) that are not in preserve and no other: a column in
\* both is untouched, every other column keeps its name, position, type and
\* values, and on the example the date stays "2024-01" while the amount
\* becomes the number 100.5.
C6_PreserveWinsOverChange ==
    (op.name = "currency_to_number" /\ ret.ok) =>
        /\ Len(ret.df) = Len(df)
        /\ \A i \in DOMAIN df :
               /\ ret.df[i].name = df[i].name
               /\ df[i].name \notin ChangeMinusPreserve(df, op) => ret.df[i] = df[i]
               /\ df[i].name \in ChangeMinusPreserve(df, op) =>
                      /\ ret.df[i].dtype = "f64"
                      /\ \A r \in DOMAIN ret.df[i].values :
                             ret.df[i].values[r].kind \in {"f64", "null"}
        /\ (/\ df = ExampleTable
            /\ op.currency_symbol = "£"
            /\ op.preserve_cols = Some({"date"})
            /\ op.change_cols = None) =>
               ret.df = <<Column("date", "str", <<Str("2024-01")>>),
                          Column("amount", "f64", <<F64(<<1, 1005, 1>>)>>)>>

C6_Witness ==
    /\ op.name = "currency_to_number"
    /\ ret.ok
    /\ op.preserve_cols = Some({"date"})
    /\ op.change_cols = Some({"amount", "date"})
    /\ HasColumn(df, "amount") /\ HasColumn(df, "date")
    /\ Height(df) = 2
    /\ ret.df[ColumnIndex(ret.df, "date")].dtype = "str"
    /\ ret.df[ColumnIndex(ret.df, "amount")].dtype = "f64"

\* the text of a value with every occurrence of the one-character symbol
\* taken out
RemoveAllLiteral(text, symbol) ==
    LET RECURSIVE Pick(_)
        Pick(i) == IF i > Len(text) THEN <<>>
                   ELSE (IF <<text[i]>> = symbol THEN <<>> ELSE <<text[i]>>) \o Pick(i + 1)
    IN  Pick(1)

\* C7: in every converted column every occurrence of the currency symbol,
\* taken literally, is removed from a value before it is parsed; the call
\* fails when what remains of some value is not a number and otherwise returns
\* the numbers.
C7_StripsEveryOccurrence ==
    (/\ op.name = "currency_to_number"
     /\ \A c \in ChangeMinusPreserve(df, op) :
            HasColumn(df, c) /\ df[ColumnIndex(df, c)].dtype = "str") =>
        LET symbol == Chars(op.currency_symbol)
            Rest(v) == RemoveAllLiteral(Chars(v.s), symbol)
            converted == {i \in DOMAIN df : df[i].name \in ChangeMinusPreserve(df, op)}
            parses == \A i \in converted : \A r \in DOMAIN df[i].values :
                          df[i].values[r].kind = "null" \/ IsNumber(Rest(df[i].values[r]))
        IN  /\ ret.ok <=> parses
            /\ ret.ok =>
                   \A i \in converted : \A r \in DOMAIN df[i].values :
                       df[i].values[r].kind # "null" =>
                           ret.df[i].values[r] = F64(ParseNumber(Rest(df[i].values[r])))

\* the identifier column of a table: id_column when given, else account, else
\* Account, else date; None when there is none
Identifier(t, id_col) ==
    IF id_col # None THEN (IF HasColumn(t, id_col[1]) THEN id_col ELSE None)
    ELSE IF HasColumn(t, "account") THEN Some("account")
    ELSE IF HasColumn(t, "Account") THEN Some("Account")
    ELSE IF HasColumn(t, "date") THEN Some("date")
    ELSE None

\* the label the pivoted axis takes
Opposite(identifier) == IF identifier \in {"account", "Account"} THEN "date" ELSE "account"

Reserved == {Str("account"), Str("Account"), Str("date")}

\* the identifier values are texts, no two alike, none of them a reserved label
PlainIdentifiers(t, identifier) ==
    LET ids == t[ColumnIndex(t, identifier)].values
    IN  /\ \A k \in DOMAIN ids : ids[k].kind = "str" /\ ids[k] \notin Reserved
        /\ \A j, k \in DOMAIN ids : j # k => ids[j] # ids[k]

\* the table section 4.2 describes: the label and the identifier values as
\* headers, one row per other column, its name first
Pivoted(t, identifier) ==
    LET ids == t[ColumnIndex(t, identifier)].values
        rest == Drop(t, identifier)
    IN  <<Column(Opposite(identifier), "str", [j \in DOMAIN rest |-> Str(rest[j].name)])>>
            \o [k \in DOMAIN ids |->
                   Column(ids[k].s, Supertype(rest), [j \in DOMAIN rest |-> rest[j].values[k]])]

\* C8: transpose with auto_name=True, whatever id_column and include_header
\* are, on a table of texts with an identifier column, at least one row and
\* one other column and plain identifier values, returns the table whose
\* headers are the opposite label and the identifier values in row order and
\* whose rows are the other columns, each with its name first.
C8_TransposeAutoName ==
    (/\ op.name = "transpose"
     /\ op.auto_name
     /\ Identifier(df, op.id_col) # None
     /\ \A i \in DOMAIN df : df[i].dtype = "str"
     /\ ~(HasColumn(df, "account") /\ HasColumn(df, "Account"))
     /\ Height(df) >= 1
     /\ Width(df) >= 2
     /\ PlainIdentifiers(df, Identifier(df, op.id_col)[1])) =>
        /\ ret.ok
        /\ ret.df = Pivoted(df, Identifier(df, op.id_col)[1])

\* the header names and the cell values of a table
Values(t) ==
    {Str(t[i].name) : i \in DOMAIN t}
        \cup UNION {Range(t[i].values) : i \in DOMAIN t}

\* the table with a column Account named account
Normalized(t) ==
    [i \in DOMAIN t |->
        IF t[i].name = "Account" THEN Column("account", t[i].dtype, t[i].values) ELSE t[i]]

\* C9 as claimed: on a table of texts whose identifier column is named account
\* or date and holds no value twice, transpose(auto_name=True) applied twice
\* ends with exactly the header names and cell values of the original.
C9_DoubleTransposeKeepsValues ==
    (/\ op.name = "transpose"
     /\ op.auto_name /\ op.include_header /\ op.id_col = None
     /\ HasColumn(df, "account") \/ HasColumn(df, "date")
     /\ ~HasColumn(df, "Account")
     /\ \A i \in DOMAIN df : df[i].dtype = "str"
     /\ LET ids == df[ColumnIndex(df, Identifier(df, None)[1])].values
        IN  \A j, k \in DOMAIN ids : j # k => ids[j] # ids[k]
     /\ ret.ok) =>
        LET second == Transpose(ret.df, None, TRUE, TRUE).ret
        IN  second.ok => Values(second.df) = Values(df)

\* C9 as amended: on a table whose identifier column is named account, Account
\* or date, whose identifier values are texts, no two alike and none of them
\* account, Account or date, and whose other columns have one type, a
\* transpose(auto_name=True) that succeeds can be applied again to its result,
\* and the final table has exactly the header names and cell values of the
\* original, Account being written account.
C9_DoubleTransposeKeepsPlainValues ==
    (/\ op.name = "transpose"
     /\ op.auto_name /\ op.include_header /\ op.id_col = None
     /\ Identifier(df, None) # None
     /\ PlainIdentifiers(df, Identifier(df, None)[1])
     /\ LET rest == Drop(df, Identifier(df, None)[1])
        IN  \A i, j \in DOMAIN rest : rest[i].dtype = rest[j].dtype
     /\ ret.ok) =>
        LET second == Transpose(ret.df, None, TRUE, TRUE).ret
        IN  /\ second.ok
            /\ Values(second.df) = Values(Normalized(df))

C9_Witness ==
    /\ op.name = "transpose"
    /\ op.auto_name /\ op.include_header /\ op.id_col = None
    /\ HasColumn(df, "account") /\ HasColumn(df, "date")
    /\ Height(df) = 2
    /\ PlainIdentifiers(df, "account")
    /\ ret.ok
    /\ Transpose(ret.df, None, TRUE, TRUE).ret.ok
    /\ Columns(Transpose(ret.df, None, TRUE, TRUE).ret.df) # Columns(df)

\* C10: no table operation alters its receiver: whatever was called and
\* whether it returned or raised, the receiver has the columns, types and rows
\* it was constructed with.
C10_ReceiverUnaltered == df = df0

C10_Witness ==
    /\ op.name = "transpose"
    /\ op.auto_name
    /\ HasColumn(df, "Account")
    /\ Height(df) = 2
    /\ ret.ok

====
